---- MODULE Spec2Model ----
(***************************************************************************)
(* Relief-Matrix (src/app.py): the disaster registry, the per-disaster     *)
(* partition tables, the in-process model cache and the request handlers   *)
(* that write to them, as a state machine of concurrently served requests. *)
(*                                                                         *)
(* Text is a sequence of one-character strings, so that strip, slugify,    *)
(* date parsing and path formatting are computed, not assumed.             *)
(***************************************************************************)
EXTENDS Integers, Sequences, FiniteSets, TLC

\* ------------------------------------------------------------------ bounds
Threads == {"t1", "t2"}      \* requests served at the same time
MaxRequests == 3             \* requests begun in one run
MaxDisasters == 2            \* disaster rows that may be registered
MaxQty == 2                  \* largest quantity a form may carry

DisasterIds == 1..MaxDisasters

\* ------------------------------------------------------------------ text
Digits == <<"0", "1", "2", "3", "4", "5", "6", "7", "8", "9">>
DigitChars == {Digits[i] : i \in 1..10}
LowerChars == {"a", "b"}
UpperChars == {"A", "B"}

DigitVal(ch) == (CHOOSE i \in 1..10 : Digits[i] = ch) - 1

str_lower(text) ==
  [i \in 1..Len(text) |->
     IF text[i] = "A" THEN "a" ELSE IF text[i] = "B" THEN "b" ELSE text[i]]

isalnum(ch) == ch \in LowerChars \cup UpperChars \cup DigitChars

RECURSIVE str_lstrip(_)
str_lstrip(text) ==
  IF text # <<>> /\ Head(text) = " " THEN str_lstrip(Tail(text)) ELSE text

RECURSIVE str_rstrip(_)
str_rstrip(text) ==
  IF text # <<>> /\ text[Len(text)] = " "
  THEN str_rstrip(SubSeq(text, 1, Len(text) - 1)) ELSE text

str_strip(text) == str_rstrip(str_lstrip(text))

\* str.split() without a separator: runs of whitespace separate, no empty words
RECURSIVE str_split(_, _, _)
str_split(text, cur, acc) ==
  IF text = <<>> THEN (IF cur = <<>> THEN acc ELSE Append(acc, cur))
  ELSE IF Head(text) = " "
       THEN str_split(Tail(text), <<>>, IF cur = <<>> THEN acc ELSE Append(acc, cur))
       ELSE str_split(Tail(text), Append(cur, Head(text)), acc)

RECURSIVE str_join(_, _)
str_join(sep, words) ==
  IF words = <<>> THEN <<>>
  ELSE IF Len(words) = 1 THEN words[1]
  ELSE words[1] \o sep \o str_join(sep, Tail(words))

RECURSIVE int_to_str(_)
int_to_str(n) ==
  IF n < 10 THEN <<Digits[n + 1]>> ELSE int_to_str(n \div 10) \o <<Digits[(n % 10) + 1]>>

RECURSIVE str_to_int(_)
str_to_int(text) ==
  IF text = <<>> THEN 0
  ELSE 10 * str_to_int(SubSeq(text, 1, Len(text) - 1)) + DigitVal(text[Len(text)])

slugify(text) ==
  str_join(<<"-">>,
           str_split(SelectSeq(str_lower(text), LAMBDA ch : isalnum(ch) \/ ch \in {" ", "-"}),
                     <<>>, <<>>))

\* ------------------------------------------------------------------ dates
IsLeap(y) == (y % 4 = 0 /\ y % 100 # 0) \/ y % 400 = 0

DaysInMonth(y, m) ==
  IF m = 2 THEN (IF IsLeap(y) THEN 29 ELSE 28)
  ELSE IF m \in {4, 6, 9, 11} THEN 30 ELSE 31

\* date.fromisoformat on YYYY-MM-DD text: the shape it accepts
iso_shape(text) ==
  /\ Len(text) = 10
  /\ text[5] = "-" /\ text[8] = "-"
  /\ \A i \in {1, 2, 3, 4, 6, 7, 9, 10} : text[i] \in DigitChars

iso_fields(text) ==
  [year  |-> str_to_int(SubSeq(text, 1, 4)),
   month |-> str_to_int(SubSeq(text, 6, 7)),
   day   |-> str_to_int(SubSeq(text, 9, 10))]

\* TRUE when date.fromisoformat(text) returns, FALSE when it raises ValueError
fromisoformat_ok(text) ==
  /\ iso_shape(text)
  /\ LET d == iso_fields(text) IN
       /\ d.year >= 1
       /\ d.month \in 1..12
       /\ d.day \in 1..DaysInMonth(d.year, d.month)

NoDate == [year |-> 0, month |-> 0, day |-> 0]
fromisoformat(text) == IF fromisoformat_ok(text) THEN iso_fields(text) ELSE NoDate

\* start_date.strftime('%Y')
strftime_Y(d) == int_to_str(d.year)

\* ----------------------------------------------------------- folder path
DISASTERS_ROOT == <<"/">>

\* The folder name without the identifier
folder_name_without_id(name, start_date, did) ==
  strftime_Y(start_date) \o <<"-">> \o slugify(name)

folder_name(name, start_date, did) ==
  strftime_Y(start_date) \o <<"-">> \o slugify(name) \o <<"-">> \o int_to_str(did)

ensure_disaster_folder(name, start_date, did) ==
  DISASTERS_ROOT \o folder_name(name, start_date, did)


\* ------------------------------------------------------------ the database
\* The four partition tables of a disaster, in the order they are created
Kinds == <<"warehouse", "relief_item", "beneficiary", "distribution">>
KindSet == {Kinds[i] : i \in 1..4}

VARIABLES
  db,        \* committed contents of drms.db: the disaster table, the partition
             \* tables that exist and their rows (a row's id is its position)
  folders,   \* folder paths created on disk
  cache,     \* _tenant_model_cache: disaster id -> <<>> or <<handle>>
  metadata,  \* disaster ids whose four table names are defined in db.metadata
  pc,        \* where each thread's request stands
  req,       \* the form of the request a thread serves
  loc,       \* the handler's local variables
  result,    \* how the request ended, while its response is being sent
  started    \* requests begun so far

vars == <<db, folders, cache, metadata, pc, req, loc, result, started>>

NoReq == [kind |-> "", did |-> 0, name |-> <<>>, start |-> <<>>, end |-> <<>>,
          location |-> <<>>, qty |-> <<>>, item_id |-> 0]

NoLoc == [disaster_id |-> 0, models |-> <<>>, item_qty |-> 0,
          attempt |-> 0, retry_delay |-> 0, slept |-> <<>>, fault |-> "",
          raised |-> "", ret |-> ""]

NoResult == ""

EmptyPartition == [d \in DisasterIds |-> <<>>]

EmptyDb == [disaster     |-> <<>>,
            tables       |-> [d \in DisasterIds |-> {}],
            warehouse    |-> EmptyPartition,
            relief_item  |-> EmptyPartition,
            beneficiary  |-> EmptyPartition,
            distribution |-> EmptyPartition]

\* One statement applied to the stored tables
Apply(d, o) ==
  IF o.op = "insert"
  THEN (IF o.tbl = "disaster"
        THEN [d EXCEPT !.disaster = Append(@, o.row)]
        ELSE [d EXCEPT ![o.tbl][o.did] = Append(@, o.row)])
  ELSE (IF o.tbl = "disaster"
        THEN [d EXCEPT !.disaster[o.key].FolderPath = o.row.FolderPath]
        ELSE [d EXCEPT !.relief_item[o.did][o.key].Quantity = o.row.Quantity])

RECURSIVE ApplyAll(_, _)
ApplyAll(d, ops) == IF ops = <<>> THEN d ELSE ApplyAll(Apply(d, Head(ops)), Tail(ops))

Insert(tbl, did, row) == [op |-> "insert", tbl |-> tbl, did |-> did, key |-> 0, row |-> row]
Update(tbl, did, key, row) == [op |-> "update", tbl |-> tbl, did |-> did, key |-> key, row |-> row]

\* A statement on a partition table raises OperationalError (no such table)
\* unless the table exists
TableExists(d, o) == o.tbl = "disaster" \/ o.tbl \in d.tables[o.did]

\* How many of the statements, in order, the database accepts
RECURSIVE Flushable(_, _)
Flushable(d, ops) ==
  IF ops = <<>> \/ ~TableExists(d, Head(ops)) THEN 0 ELSE 1 + Flushable(d, Tail(ops))

Init ==
  /\ db = EmptyDb
  /\ folders = {}
  /\ cache = [d \in DisasterIds |-> <<>>]
  /\ metadata = {}
  /\ pc = [t \in Threads |-> "idle"]
  /\ req = [t \in Threads |-> NoReq]
  /\ loc = [t \in Threads |-> NoLoc]
  /\ result = [t \in Threads |-> NoResult]
  /\ started = 0

\* The handler returns (or raises): the response is on its way
Done(t, outcome) ==
  /\ pc' = [pc EXCEPT ![t] = "respond"]
  /\ result' = [result EXCEPT ![t] = outcome]

Goto(t, label) ==
  /\ pc' = [pc EXCEPT ![t] = label]
  /\ result' = result

\* The response has left and the thread is free for the next request
Respond(t) ==
  /\ pc[t] = "respond"
  /\ pc' = [pc EXCEPT ![t] = "idle"]
  /\ result' = [result EXCEPT ![t] = NoResult]
  /\ req' = [req EXCEPT ![t] = NoReq]
  /\ loc' = [loc EXCEPT ![t] = NoLoc]
  /\ UNCHANGED <<db, folders, cache, metadata, started>>

\* ------------------------------------------------------------ form inputs
RegisterForm(name, start, end) ==
  [NoReq EXCEPT !.kind = "register", !.name = name, !.start = start, !.end = end]

\* POST /disasters/new: forms with a missing name, a blank name, a missing start
\* date, a date that is no calendar day, a date in another notation, a bad end
\* date, and two valid forms
RegisterForms ==
  {RegisterForm(<<>>, <<"2", "0", "2", "4", "-", "0", "3", "-", "0", "1">>, <<>>),
   RegisterForm(<<" ">>, <<"2", "0", "2", "4", "-", "0", "3", "-", "0", "1">>, <<>>),
   RegisterForm(<<"A", "b">>, <<>>, <<>>),
   RegisterForm(<<"A", "b">>, <<"2", "0", "2", "3", "-", "0", "2", "-", "2", "9">>, <<>>),
   RegisterForm(<<"A", "b">>, <<"0", "3", "/", "0", "1", "/", "2", "0", "2", "4">>, <<>>),
   RegisterForm(<<"A", "b">>, <<"2", "0", "2", "4", "-", "0", "3", "-", "0", "1">>, <<"x">>),
   RegisterForm(<<"A", "b">>, <<"2", "0", "2", "4", "-", "0", "3", "-", "0", "1">>, <<>>),
   RegisterForm(<<" ", "a", " ", " ", "b", "!", " ">>, <<"2", "0", "2", "3", "-", "1", "2", "-", "3", "1">>, <<"2", "0", "2", "4", "-", "0", "3", "-", "0", "9">>)}

ViewForms == {[NoReq EXCEPT !.kind = "view", !.did = did] : did \in DisasterIds}

AddForm(did, location, name, qty) ==
  [NoReq EXCEPT !.kind = "add", !.did = did, !.location = location, !.name = name, !.qty = qty]

\* POST /disasters/<id>/resources/new: a missing or blank location, a missing
\* item name, quantities that are zero, negative, missing or no number, and the
\* valid forms
AddForms ==
  UNION {{AddForm(did, <<>>, <<"r">>, <<"1">>),
          AddForm(did, <<" ">>, <<"r">>, <<"1">>),
          AddForm(did, <<"D">>, <<>>, <<"1">>),
          AddForm(did, <<"D">>, <<"r">>, <<"0">>),
          AddForm(did, <<"D">>, <<"r">>, <<"-", "1">>),
          AddForm(did, <<"D">>, <<"r">>, <<>>),
          AddForm(did, <<"D">>, <<"r">>, <<"x">>)}
         \cup {AddForm(did, <<" ", "D">>, <<"r">>, int_to_str(n)) : n \in 1..MaxQty}
         : did \in DisasterIds}

DistForm(did, name, item_id, qty) ==
  [NoReq EXCEPT !.kind = "dist", !.did = did, !.name = name, !.item_id = item_id, !.qty = qty]

\* POST /disasters/<id>/distribute: a missing beneficiary name, quantities that
\* are zero or no number, and the valid forms, for the items the disaster has
\* and one id it has not
DistForms(d) ==
  UNION {UNION {{DistForm(did, <<>>, item, <<"1">>),
                 DistForm(did, <<"j">>, item, <<"0">>),
                 DistForm(did, <<"j">>, item, <<"x">>)}
                \cup {DistForm(did, <<"j">>, item, int_to_str(n)) : n \in 1..MaxQty}
                : item \in 1..(Len(d.relief_item[did]) + 1)}
         : did \in DisasterIds}

\* int(text or 0) returns for these texts and raises ValueError for the others
int_ok(text) ==
  \/ text = <<>>
  \/ /\ text # <<>>
     /\ \A i \in 1..Len(text) : text[i] \in DigitChars
  \/ /\ Len(text) > 1
     /\ text[1] = "-"
     /\ \A i \in 2..Len(text) : text[i] \in DigitChars

int_of(text) ==
  IF text = <<>> THEN 0
  ELSE IF text[1] = "-" THEN 0 - str_to_int(Tail(text)) ELSE str_to_int(text)

Max(a, b) == IF a >= b THEN a ELSE b

\* ------------------------------------------------- create_tenant_models
Handle(did) == [disaster_id |-> did, classes |-> Kinds]

\* line 91
cache_hit(c, did) == c[did] # <<>>

\* Defining a table name a second time on the same MetaData raises
\* InvalidRequestError ("Table ... is already defined for this MetaData instance")
define_conflicts(md, did) == did \in md

\* A handler that takes the disaster row back
table_error_deletes(d, did) == [d EXCEPT !.disaster = SubSeq(@, 1, did - 1)]

\* lines 284-288: what the handler of a table setup failure does to the registry
table_error_handler(d, did) == d

\* lines 94-162: the four classes are defined on db.metadata, then cached.
\* An error here is inside create_disaster's try (line 278) and outside every
\* other handler's.
create_tenant_models_build(t) ==
  /\ pc[t] = "tm_build"
  /\ LET did == loc[t].disaster_id IN
     IF define_conflicts(metadata, did)
     THEN /\ loc' = [loc EXCEPT ![t].raised = "InvalidRequestError"]
          /\ IF req[t].kind = "register"
             THEN Done(t, "warning") /\ db' = table_error_handler(db, did)
             ELSE Done(t, "crash") /\ db' = db
          /\ UNCHANGED <<cache, metadata>>
     ELSE /\ metadata' = metadata \cup {did}
          /\ cache' = [cache EXCEPT ![did] = <<Handle(did)>>]
          /\ loc' = [loc EXCEPT ![t].models = <<Handle(did)>>]
          /\ Goto(t, loc[t].ret)
          /\ db' = db
  /\ UNCHANGED <<folders, req, started>>

\* ------------------------------------------------- create_tenant_tables
max_retries == 3
\* retry_delay, in tenths of a second
initial_retry_delay == 5

\* lines 86-92, entered from a caller that continues at `ret`; when the caller
\* is create_tenant_tables, its loop variables (lines 173-174) are set as well
CallCreateTenantModels(t, did, ret) ==
  LET entered == [loc[t] EXCEPT
                    !.disaster_id = did,
                    !.ret = ret,
                    !.retry_delay = IF ret = "ct_attempt" THEN initial_retry_delay ELSE 0] IN
  IF cache_hit(cache, did)
  THEN /\ loc' = [loc EXCEPT ![t] = [entered EXCEPT !.models = cache[did]]]
       /\ Goto(t, ret)
  ELSE /\ loc' = [loc EXCEPT ![t] = entered]
       /\ Goto(t, "tm_build")

\* Table.create without the check for an existing table
no_checkfirst == FALSE

checkfirst == TRUE

\* Table.create(db.engine, checkfirst=...) on the tables that exist
table_create(existing, kind) ==
  IF kind \in existing
  THEN [tables |-> existing, err |-> IF checkfirst THEN "" ELSE "other"]
  ELSE [tables |-> existing \cup {kind}, err |-> ""]

\* lines 179-182: the four creates in order; the storage engine may fail the
\* k-th with `fault` ("locked": OperationalError database is locked; "other":
\* any other failure). Each create is committed as it is made.
RECURSIVE create_four(_, _, _, _)
create_four(existing, i, fault, k) ==
  IF i > 4 THEN [tables |-> existing, err |-> ""]
  ELSE IF fault # "" /\ i = k THEN [tables |-> existing, err |-> fault]
  ELSE LET r == table_create(existing, Kinds[i]) IN
       IF r.err # "" THEN r ELSE create_four(r.tables, i + 1, fault, k)

\* A retry on any error, whatever its class
retry_any_error(err, attempt) == attempt < max_retries - 1

\* line 188
should_retry(err, attempt) == err = "locked" /\ attempt < max_retries - 1

\* lines 176-195: one pass of the retry loop. loc.fault records what the
\* storage engine did to this pass, loc.raised the error the pass ended with.
\* An error that leaves the loop reaches create_disaster's handler (line 284)
\* or, from any other caller, the caller.
create_tenant_tables_attempt(t) ==
  /\ pc[t] = "ct_attempt"
  /\ \E fault \in {"", "locked", "other"} : \E k \in 1..4 :
       /\ fault = "" => k = 1
       /\ LET did == loc[t].disaster_id
              r == create_four(db.tables[did], 1, fault, k)
              created == [db EXCEPT !.tables[did] = r.tables] IN
          IF r.err = ""
          THEN /\ loc' = [loc EXCEPT ![t].fault = fault, ![t].raised = ""]
               /\ db' = created
               /\ Done(t, "ok")
          ELSE IF should_retry(r.err, loc[t].attempt)
          THEN /\ loc' = [loc EXCEPT ![t].attempt = @ + 1,
                                     ![t].slept = Append(@, loc[t].retry_delay),
                                     ![t].retry_delay = @ * 2,
                                     ![t].fault = fault,
                                     ![t].raised = r.err]
               /\ db' = created
               /\ Goto(t, "ct_attempt")
          ELSE /\ loc' = [loc EXCEPT ![t].fault = fault, ![t].raised = r.err]
               /\ IF req[t].kind = "register"
                  THEN Done(t, "warning") /\ db' = table_error_handler(created, did)
                  ELSE Done(t, "crash") /\ db' = created
  /\ UNCHANGED <<folders, cache, metadata, req, started>>

\* lines 205-220
check_tenant_tables_exist(d, did) == \A i \in 1..4 : Kinds[i] \in d.tables[did]

\* ------------------------------------------------------ create_disaster
\* The validation without .strip() on the fields
create_disaster_validate_unstripped(form) ==
  IF form.name = <<>> \/ form.start = <<>> THEN "rejected"
  ELSE IF ~fromisoformat_ok(form.start) THEN "rejected"
  ELSE IF form.end # <<>> /\ ~fromisoformat_ok(form.end) THEN "error"
  ELSE ""

\* lines 241-253: "" when the form passes, else how the request ends
create_disaster_validate(form) ==
  LET name == str_strip(form.name)
      start_date_str == str_strip(form.start)
      end_date_str == str_strip(form.end) IN
  IF name = <<>> \/ start_date_str = <<>> THEN "rejected"
  ELSE IF ~fromisoformat_ok(start_date_str) THEN "rejected"
  ELSE IF end_date_str # <<>> /\ ~fromisoformat_ok(end_date_str) THEN "error"
  ELSE ""

Registering == {u \in Threads : pc[u] = "reg_write"}

\* lines 231-253: the form arrives and is validated
BeginRegister(t) ==
  /\ pc[t] = "idle"
  /\ started < MaxRequests
  /\ Len(db.disaster) + Cardinality(Registering) < MaxDisasters
  /\ \E form \in RegisterForms :
       /\ req' = [req EXCEPT ![t] = form]
       /\ IF create_disaster_validate(form) # ""
          THEN Done(t, create_disaster_validate(form))
          ELSE Goto(t, "reg_write")
  /\ started' = started + 1
  /\ UNCHANGED <<db, folders, cache, metadata, loc>>

\* lines 256-271: the row is inserted with an empty FolderPath to obtain its
\* id, then the path computed from the id is set on it
create_disaster_ops(name, start_date, did, folder_path) ==
  <<Insert("disaster", 0, [Name |-> name, StartDate |-> start_date, FolderPath |-> <<>>]),
    Update("disaster", 0, did, [FolderPath |-> folder_path])>>

\* line 294: what db.session.rollback() leaves of the statements flushed
create_disaster_rollback(d, flushed) == d

\* lines 256-274 and 293-296: one transaction. It ends committed, or it fails
\* with `n` of its statements flushed and is rolled back; the folders are on
\* disk once the first statement is flushed and mkdir has run.
create_disaster_write(t) ==
  /\ pc[t] = "reg_write"
  /\ LET did == Len(db.disaster) + 1
         name == str_strip(req[t].name)
         start_date == fromisoformat(str_strip(req[t].start))
         folder_path == ensure_disaster_folder(name, start_date, did)
         ops == create_disaster_ops(name, start_date, did, folder_path) IN
     \/ /\ folders' = folders \cup {folder_path}
        /\ db' = ApplyAll(db, ops)
        /\ loc' = [loc EXCEPT ![t].disaster_id = did]
        /\ Goto(t, "reg_tables")
     \/ \E n \in 0..Len(ops) : \E made \in BOOLEAN :
          /\ n = 0 => ~made
          /\ n = Len(ops) => made
          /\ folders' = IF made THEN folders \cup {folder_path} ELSE folders
          /\ db' = create_disaster_rollback(db, SubSeq(ops, 1, n))
          /\ loc' = loc
          /\ Done(t, "error")
  /\ UNCHANGED <<cache, metadata, req, started>>

\* lines 278-283, and lines 170 and 86-92 of create_tenant_tables
create_disaster_tables(t) ==
  /\ pc[t] = "reg_tables"
  /\ LET did == loc[t].disaster_id IN
     \/ /\ check_tenant_tables_exist(db, did)
        /\ Done(t, "ok")
        /\ loc' = loc
        /\ db' = db
     \/ /\ ~check_tenant_tables_exist(db, did)
        /\ CallCreateTenantModels(t, did, "ct_attempt")
        /\ db' = db
     \/ \* the catalog query itself fails
        /\ Done(t, "warning")
        /\ loc' = [loc EXCEPT ![t].raised = "other"]
        /\ db' = table_error_handler(db, did)
  /\ UNCHANGED <<folders, cache, metadata, req, started>>

\* ------------------------------------------------- the partition handlers
\* Disaster.query.get_or_404(disaster_id)
disaster_exists(d, did) == did \in 1..Len(d.disaster)

BodyOf(kind) ==
  IF kind = "view" THEN "view_query" ELSE IF kind = "add" THEN "add_write" ELSE "dist_load"

\* The first two statements of every partition handler (lines 302-305, 330-333,
\* 380-383, 449-452, 469-472, 489-492): the disaster is loaded or the request
\* ends 404, then get_tenant_models looks into the cache
EnterHandler(t, form) ==
  /\ pc[t] = "idle"
  /\ started < MaxRequests
  /\ req' = [req EXCEPT ![t] = form]
  /\ IF disaster_exists(db, form.did)
     THEN CallCreateTenantModels(t, form.did, BodyOf(form.kind))
     ELSE Done(t, "notfound") /\ loc' = [loc EXCEPT ![t].disaster_id = form.did]
  /\ started' = started + 1
  /\ UNCHANGED <<db, folders, cache, metadata>>

BeginView(t) == \E form \in ViewForms : EnterHandler(t, form)

BeginAdd(t) == \E form \in AddForms : EnterHandler(t, form)

BeginDistribute(t) == \E form \in DistForms(db) : EnterHandler(t, form)

\* lines 308-320 (455-458, 475-478, 495-498): the four tables are queried
\* outside any try; a missing table ends the request with a server error
view_query(t) ==
  /\ pc[t] = "view_query"
  /\ IF check_tenant_tables_exist(db, loc[t].disaster_id)
     THEN Done(t, "ok") ELSE Done(t, "crash")
  /\ UNCHANGED <<db, folders, cache, metadata, req, loc, started>>

\* lines 338-347: "" when the form passes, else how the request ends
add_resources_validate(form) ==
  LET location == str_strip(form.location)
      item_name == str_strip(form.name) IN
  IF ~int_ok(str_strip(form.qty)) THEN "error"
  ELSE IF location = <<>> \/ item_name = <<>> \/ int_of(str_strip(form.qty)) <= 0 THEN "rejected"
  ELSE ""

\* lines 350-365: the warehouse, then the item that refers to its id
add_resources_ops(d, form) ==
  LET did == form.did
      WarehouseID == Len(d.warehouse[did]) + 1 IN
  <<Insert("warehouse", did, [Location |-> str_strip(form.location)]),
    Insert("relief_item", did, [WarehouseID |-> WarehouseID,
                                Name |-> str_strip(form.name),
                                Quantity |-> int_of(str_strip(form.qty))])>>

\* A rollback that leaves the flushed statements in place
add_resources_no_rollback(d, flushed) == ApplyAll(d, flushed)

\* line 372: what db.session.rollback() leaves of the statements flushed
add_resources_rollback(d, flushed) == d

\* lines 336-374: the form is validated, then one transaction
add_resources_write(t) ==
  /\ pc[t] = "add_write"
  /\ LET verdict == add_resources_validate(req[t])
         ops == add_resources_ops(db, req[t]) IN
     IF verdict # ""
     THEN Done(t, verdict) /\ db' = db
     ELSE \/ /\ Flushable(db, ops) = Len(ops)
             /\ db' = ApplyAll(db, ops)
             /\ Done(t, "ok")
          \/ \E n \in 0..Flushable(db, ops) :
               /\ db' = add_resources_rollback(db, SubSeq(ops, 1, n))
               /\ Done(t, "error")
  /\ UNCHANGED <<folders, cache, metadata, req, loc, started>>

\* The comparison off by one
insufficient_off_by_one(item_quantity, qty) == item_quantity + 1 < qty

\* line 408
insufficient(item_quantity, qty) == item_quantity < qty

\* lines 386-410: the items are read into the session, the form is parsed and
\* validated, the item is looked up and its quantity compared
distribute_load(t) ==
  /\ pc[t] = "dist_load"
  /\ LET did == loc[t].disaster_id
         form == req[t]
         items == db.relief_item[did] IN
     IF ~({"warehouse", "relief_item"} \subseteq db.tables[did])
     THEN Done(t, "crash") /\ loc' = loc
     ELSE IF ~int_ok(str_strip(form.qty))
     THEN Done(t, "error") /\ loc' = loc
     ELSE IF str_strip(form.name) = <<>> \/ int_of(str_strip(form.qty)) <= 0
     THEN Done(t, "rejected") /\ loc' = loc
     ELSE IF form.item_id \notin 1..Len(items)
     THEN Done(t, "notfound") /\ loc' = loc
     ELSE IF insufficient(items[form.item_id].Quantity, int_of(str_strip(form.qty)))
     THEN Done(t, "insufficient") /\ loc' = loc
     ELSE /\ loc' = [loc EXCEPT ![t].item_qty = items[form.item_id].Quantity]
          /\ Goto(t, "dist_write")
  /\ UNCHANGED <<db, folders, cache, metadata, req, started>>

\* lines 413-432: the beneficiary, the distribution that refers to its id, and
\* the item's quantity computed from the quantity the session read
distribute_ops(d, form, item_quantity) ==
  LET did == form.did
      qty == int_of(str_strip(form.qty))
      BeneficiaryID == Len(d.beneficiary[did]) + 1 IN
  <<Insert("beneficiary", did, [Name |-> str_strip(form.name)]),
    Insert("distribution", did, [BeneficiaryID |-> BeneficiaryID,
                                 ItemID |-> form.item_id,
                                 Quantity |-> qty]),
    Update("relief_item", did, form.item_id, [Quantity |-> Max(0, item_quantity - qty)])>>

\* A rollback that leaves the flushed statements in place
distribute_no_rollback(d, flushed) == ApplyAll(d, flushed)

\* line 440: what db.session.rollback() leaves of the statements flushed
distribute_rollback(d, flushed) == d

\* lines 412-442: one transaction
distribute_write(t) ==
  /\ pc[t] = "dist_write"
  /\ LET ops == distribute_ops(db, req[t], loc[t].item_qty) IN
     \/ /\ Flushable(db, ops) = Len(ops)
        /\ db' = ApplyAll(db, ops)
        /\ Done(t, "ok")
     \/ \E n \in 0..Flushable(db, ops) :
          /\ db' = distribute_rollback(db, SubSeq(ops, 1, n))
          /\ Done(t, "error")
  /\ UNCHANGED <<folders, cache, metadata, req, loc, started>>

\* ------------------------------------------------------------------ system
Next ==
  \/ \E t \in Threads : BeginRegister(t)
  \/ \E t \in Threads : create_disaster_write(t)
  \/ \E t \in Threads : create_disaster_tables(t)
  \/ \E t \in Threads : create_tenant_models_build(t)
  \/ \E t \in Threads : create_tenant_tables_attempt(t)
  \/ \E t \in Threads : BeginView(t)
  \/ \E t \in Threads : view_query(t)
  \/ \E t \in Threads : BeginAdd(t)
  \/ \E t \in Threads : add_resources_write(t)
  \/ \E t \in Threads : BeginDistribute(t)
  \/ \E t \in Threads : distribute_load(t)
  \/ \E t \in Threads : distribute_write(t)
  \/ \E t \in Threads : Respond(t)

Spec == Init /\ [][Next]_vars

\* The registry alone: registrations, and the read-only views of what they made
NextRegistry ==
  \/ \E t \in Threads : BeginRegister(t)
  \/ \E t \in Threads : create_disaster_write(t)
  \/ \E t \in Threads : create_disaster_tables(t)
  \/ \E t \in Threads : create_tenant_models_build(t)
  \/ \E t \in Threads : create_tenant_tables_attempt(t)
  \/ \E t \in Threads : BeginView(t)
  \/ \E t \in Threads : view_query(t)
  \/ \E t \in Threads : Respond(t)

SpecRegistry == Init /\ [][NextRegistry]_vars

\* drms.db as earlier runs of the program left it: disaster 1 registered with
\* its four tables, disaster 2 registered while its table setup failed at the
\* third create. The process is the one that registered disaster 1 or a later
\* one, so its handle may or may not be cached.
PersistedRow(form, did) ==
  [Name |-> str_strip(form.name),
   StartDate |-> fromisoformat(str_strip(form.start)),
   FolderPath |-> ensure_disaster_folder(str_strip(form.name),
                                         fromisoformat(str_strip(form.start)), did)]

PersistedDisasters ==
  <<PersistedRow(RegisterForm(<<"A", "b">>, <<"2", "0", "2", "4", "-", "0", "3", "-", "0", "1">>, <<>>), 1),
    PersistedRow(RegisterForm(<<" ", "a", " ", " ", "b", "!", " ">>, <<"2", "0", "2", "3", "-", "1", "2", "-", "3", "1">>, <<"2", "0", "2", "4", "-", "0", "3", "-", "0", "9">>), 2)>>

InitPartition ==
  /\ db = [EmptyDb EXCEPT
             !.disaster = PersistedDisasters,
             !.tables = [d \in DisasterIds |->
                           IF d = 1 THEN KindSet
                           ELSE IF d = 2 THEN {"warehouse", "relief_item"} ELSE {}]]
  /\ folders = {PersistedDisasters[i].FolderPath : i \in 1..2}
  /\ \E cached \in SUBSET {1} :
       /\ cache = [d \in DisasterIds |-> IF d \in cached THEN <<Handle(d)>> ELSE <<>>]
       /\ metadata = cached
  /\ pc = [t \in Threads |-> "idle"]
  /\ req = [t \in Threads |-> NoReq]
  /\ loc = [t \in Threads |-> NoLoc]
  /\ result = [t \in Threads |-> NoResult]
  /\ started = 0

NextPartition ==
  \/ \E t \in Threads : create_tenant_models_build(t)
  \/ \E t \in Threads : BeginView(t)
  \/ \E t \in Threads : view_query(t)
  \/ \E t \in Threads : BeginAdd(t)
  \/ \E t \in Threads : add_resources_write(t)
  \/ \E t \in Threads : BeginDistribute(t)
  \/ \E t \in Threads : distribute_load(t)
  \/ \E t \in Threads : distribute_write(t)
  \/ \E t \in Threads : Respond(t)

SpecPartition == InitPartition /\ [][NextPartition]_vars

\* create_tenant_tables applied on its own, one call after the other, to a
\* database in which any of the four tables of disaster 1 may already exist,
\* each with a row in it
SampleRows ==
  [warehouse    |-> <<[Location |-> <<"D">>]>>,
   relief_item  |-> <<[WarehouseID |-> 1, Name |-> <<"r">>, Quantity |-> 1]>>,
   beneficiary  |-> <<[Name |-> <<"j">>]>>,
   distribution |-> <<[BeneficiaryID |-> 1, ItemID |-> 1, Quantity |-> 1]>>]

RowsOf(kind, existing) ==
  [d \in DisasterIds |-> IF kind \in existing[d] THEN SampleRows[kind] ELSE <<>>]

InitTables ==
  /\ \E first \in SUBSET KindSet :
     LET existing == [d \in DisasterIds |-> IF d = 1 THEN first ELSE {}] IN
       db = [disaster     |-> PersistedDisasters,
             tables       |-> existing,
             warehouse    |-> RowsOf("warehouse", existing),
             relief_item  |-> RowsOf("relief_item", existing),
             beneficiary  |-> RowsOf("beneficiary", existing),
             distribution |-> RowsOf("distribution", existing)]
  /\ folders = {PersistedDisasters[i].FolderPath : i \in 1..2}
  /\ cache = [d \in DisasterIds |-> <<>>]
  /\ metadata = {}
  /\ pc = [t \in Threads |-> "idle"]
  /\ req = [t \in Threads |-> NoReq]
  /\ loc = [t \in Threads |-> NoLoc]
  /\ result = [t \in Threads |-> NoResult]
  /\ started = 0

\* lines 165-170: create_tenant_tables(disaster_id) is called
CallCreateTenantTables(t) ==
  /\ \A u \in Threads : pc[u] = "idle"
  /\ started < MaxRequests
  /\ \E did \in DisasterIds :
       /\ req' = [req EXCEPT ![t] = [NoReq EXCEPT !.kind = "tables", !.did = did]]
       /\ CallCreateTenantModels(t, did, "ct_attempt")
  /\ started' = started + 1
  /\ UNCHANGED <<db, folders, cache, metadata>>

NextTables ==
  \/ \E t \in Threads : CallCreateTenantTables(t)
  \/ \E t \in Threads : create_tenant_models_build(t)
  \/ \E t \in Threads : create_tenant_tables_attempt(t)
  \/ \E t \in Threads : Respond(t)

SpecTables == InitTables /\ [][NextTables]_vars

\* ------------------------------------------------------------------ claims
Blank(text) == \A i \in 1..Len(text) : text[i] = " "

Moves(t) == pc'[t] # pc[t]

FormQty(form) == int_of(str_strip(form.qty))

\* Every partition of the database but disaster did's rows in `kinds`
SameExcept(did, kinds) ==
  /\ db'.disaster = db.disaster
  /\ db'.tables = db.tables
  /\ \A k \in KindSet : \A e \in DisasterIds :
       (e # did \/ k \notin kinds) => db'[k][e] = db[k][e]

\* The three effects of a distribution, and nothing else
DistributeCommitted(t) ==
  LET did == req[t].did
      item == req[t].item_id IN
  /\ db'.beneficiary[did] = Append(db.beneficiary[did], [Name |-> str_strip(req[t].name)])
  /\ db'.distribution[did] =
       Append(db.distribution[did], [BeneficiaryID |-> Len(db.beneficiary[did]) + 1,
                                     ItemID |-> item,
                                     Quantity |-> FormQty(req[t])])
  /\ db'.relief_item[did] =
       [db.relief_item[did] EXCEPT ![item].Quantity = Max(0, loc[t].item_qty - FormQty(req[t]))]
  /\ SameExcept(did, {"beneficiary", "distribution", "relief_item"})

\* Every beneficiary row has its distribution row, which refers to an item
NoPartialDistribution ==
  \A did \in DisasterIds :
    /\ Len(db.beneficiary[did]) = Len(db.distribution[did])
    /\ \A i \in 1..Len(db.distribution[did]) :
         /\ db.distribution[did][i].BeneficiaryID = i
         /\ db.distribution[did][i].ItemID \in 1..Len(db.relief_item[did])

C1_Step(t) ==
  /\ (pc[t] = "dist_load" /\ pc'[t] = "dist_write") =>
       \* the request is one the claim is about, N being the quantity it read
       /\ ~Blank(req[t].name)
       /\ FormQty(req[t]) > 0
       /\ loc'[t].item_qty = db.relief_item[req[t].did][req[t].item_id].Quantity
       /\ FormQty(req[t]) <= loc'[t].item_qty
       /\ db' = db
  /\ (pc[t] = "dist_write" /\ Moves(t)) =>
       \/ result'[t] = "ok" /\ DistributeCommitted(t)
       \/ result'[t] = "error" /\ db' = db

\* C1: a distribute request with a beneficiary name and a quantity Q > 0 that is
\* at most the quantity N it read for the item either commits one beneficiary
\* row, one distribution row that refers to it and to the item with quantity Q,
\* and the item's quantity max(0, N - Q), or it commits nothing; no state holds
\* only some of the three effects.
C1_DistributeAtomic ==
  [][(\A t \in Threads : C1_Step(t)) /\ NoPartialDistribution']_vars

C1_Witness ==
  \E t \in Threads : req[t].kind = "dist" /\ pc[t] = "respond" /\ result[t] = "ok"

ItemStored(form) == form.item_id \in 1..Len(db.relief_item[form.did])

Exceeds(form) ==
  /\ ItemStored(form)
  /\ int_ok(str_strip(form.qty))
  /\ FormQty(form) > db.relief_item[form.did][form.item_id].Quantity

C3_Original ==
  [][\A did \in DisasterIds :
       Len(db'.distribution[did]) > Len(db.distribution[did]) =>
         LET row == db'.distribution[did][Len(db'.distribution[did])]
             stored == db.relief_item[did][row.ItemID].Quantity IN
         /\ row.Quantity <= stored
         /\ db'.relief_item[did][row.ItemID].Quantity = stored - row.Quantity]_vars

\* The two rows of an add-resources request, and nothing else
AddCommitted(t) ==
  LET did == req[t].did IN
  /\ db'.warehouse[did] = Append(db.warehouse[did], [Location |-> str_strip(req[t].location)])
  /\ db'.relief_item[did] =
       Append(db.relief_item[did], [WarehouseID |-> Len(db.warehouse[did]) + 1,
                                    Name |-> str_strip(req[t].name),
                                    Quantity |-> FormQty(req[t])])
  /\ SameExcept(did, {"warehouse", "relief_item"})

AddInvalid(form) ==
  \/ Blank(form.location)
  \/ Blank(form.name)
  \/ int_ok(str_strip(form.qty)) /\ FormQty(form) <= 0

\* Every warehouse row has exactly one item row that refers to it
NoWarehouseWithoutItem ==
  \A did \in DisasterIds : \A w \in 1..Len(db.warehouse[did]) :
    Cardinality({i \in 1..Len(db.relief_item[did]) :
                   db.relief_item[did][i].WarehouseID = w}) = 1

\* C4: an add-resources request with a blank location, a blank item name or a
\* quantity <= 0 persists nothing; any other one commits one warehouse row and
\* one item row that refers to it, or neither; no warehouse is stored without
\* its item.
C4_AddResourcesAtomic ==
  [][/\ \A t \in Threads :
          (pc[t] = "add_write" /\ Moves(t)) =>
            IF AddInvalid(req[t])
            THEN db' = db /\ result'[t] # "ok"
            ELSE \/ result'[t] = "ok" /\ AddCommitted(t)
                 \/ result'[t] = "error" /\ db' = db
     /\ NoWarehouseWithoutItem']_vars

C4_Witness ==
  \E t \in Threads : req[t].kind = "add" /\ pc[t] = "respond" /\ result[t] = "ok"

\* Nothing but the set of tables of disaster did is touched
OnlyTablesOf(did) ==
  /\ db'.disaster = db.disaster
  /\ \A e \in DisasterIds : e # did => db'.tables[e] = db.tables[e]
  /\ \A k \in KindSet : db'[k] = db[k]

Attempted(t) == pc[t] = "ct_attempt" /\ (Moves(t) \/ loc'[t] # loc[t])

\* C5: create_tenant_tables run again for the same disaster, or run while any
\* of its four tables exist, keeps the tables that exist and their rows and,
\* unless the storage engine fails it, ends without error with the four tables.
C5_CreateTablesIdempotent ==
  [][\A t \in Threads :
       Attempted(t) =>
         LET did == loc[t].disaster_id IN
         /\ db.tables[did] \subseteq db'.tables[did]
         /\ OnlyTablesOf(did)
         /\ loc'[t].fault = "" =>
              /\ pc'[t] = "respond" /\ result'[t] = "ok" /\ loc'[t].raised = ""
              /\ db'.tables[did] = KindSet]_vars

\* A later call for disaster 1, whose tables all held a row, has ended well
C5_Witness ==
  \E t \in Threads :
    /\ req[t].kind = "tables" /\ pc[t] = "respond" /\ result[t] = "ok"
    /\ loc[t].disaster_id = 1
    /\ started >= 2
    /\ \A e \in DisasterIds : e # 1 => cache[e] = <<>>
    /\ db.tables[1] = KindSet
    /\ \A k \in KindSet : db[k][1] = SampleRows[k]

\* The waits of lines 174 and 191, in tenths of a second
ExpectedDelays == <<5, 10>>

C6_Step(t) ==
  Attempted(t) =>
    /\ loc[t].attempt \in 0..2
    /\ pc'[t] = "ct_attempt" =>
         /\ loc'[t].raised = "locked"
         /\ loc'[t].attempt = loc[t].attempt + 1
         /\ loc'[t].slept = SubSeq(ExpectedDelays, 1, loc'[t].attempt)
    /\ loc'[t].raised \notin {"", "locked"} =>
         /\ pc'[t] = "respond" /\ result'[t] \in {"warning", "crash"}
         /\ loc'[t].slept = loc[t].slept
    /\ (loc'[t].raised = "locked" /\ loc[t].attempt = 2) =>
         pc'[t] = "respond" /\ result'[t] \in {"warning", "crash"}

\* C6: create_tenant_tables makes at most 3 attempts and ends; it tries again
\* only after a database-is-locked failure, having waited 0.5 s and then 1.0 s;
\* any other failure, and a lock failure on the third attempt, reaches the caller
\* on the attempt where it occurs.
C6_BoundedRetry ==
  /\ [][\A t \in Threads : C6_Step(t)]_vars
  /\ \A t \in Threads : (pc[t] = "ct_attempt") ~> (pc[t] = "respond")

C6_Witness ==
  \E t \in Threads :
    /\ pc[t] = "respond" /\ loc[t].raised = "locked"
    /\ loc[t].attempt = 2 /\ loc[t].slept = ExpectedDelays

\* Each thread that is creating tables gets to run
FairSpecRegistry ==
  SpecRegistry /\ \A t \in Threads : WF_vars(create_tenant_tables_attempt(t))

SettingUpTables(t) ==
  req[t].kind = "register" /\ pc[t] \in {"reg_tables", "tm_build", "ct_attempt"}

\* C7: when the table setup of a registration fails, the request ends with a
\* warning, and the disaster row committed before stays as it is, with its
\* folder path, while its four tables do not all exist.
C7_RowKeptOnTableFailure ==
  [][\A t \in Threads :
       (SettingUpTables(t) /\ pc'[t] = "respond" /\ result'[t] # "ok") =>
         LET did == loc[t].disaster_id IN
         /\ result'[t] = "warning"
         /\ db'.disaster = db.disaster
         /\ did \in 1..Len(db'.disaster)
         /\ db'.disaster[did].FolderPath # <<>>
         /\ db'.disaster[did].FolderPath \in folders'
         /\ ~check_tenant_tables_exist(db', did)]_vars

C7_Witness ==
  \E t \in Threads :
    /\ req[t].kind = "register" /\ pc[t] = "respond" /\ result[t] = "warning"
    /\ loc[t].disaster_id \in 1..Len(db.disaster)
    /\ db.tables[loc[t].disaster_id] # KindSet

\* The start dates of the forms that are no ISO calendar date
NotADate == {<<"2", "0", "2", "3", "-", "0", "2", "-", "2", "9">>, <<"0", "3", "/", "0", "1", "/", "2", "0", "2", "4">>}

BadRegistration(form) ==
  Blank(form.name) \/ Blank(form.start) \/ form.start \in NotADate

\* C8: a registration with a blank name, a blank start date or a start date that
\* is no ISO calendar date is rejected, and neither then nor while the response
\* is sent does a disaster row, a folder or a table appear.
C8_BadRegistrationRejected ==
  [][\A t \in Threads :
       /\ (pc[t] = "idle" /\ req'[t].kind = "register" /\ BadRegistration(req'[t])) =>
            /\ pc'[t] = "respond" /\ result'[t] = "rejected"
            /\ db' = db /\ folders' = folders
       /\ (req[t].kind = "register" /\ result[t] = "rejected" /\ Moves(t)) =>
            db' = db /\ folders' = folders]_vars

C8_Witness ==
  \E t \in Threads :
    /\ req[t].kind = "register" /\ pc[t] = "respond" /\ result[t] = "rejected"
    /\ req[t].name = <<" ">>

\* The slugs of the names the forms carry, written out
ExpectedSlug(name) ==
  IF name = <<"A", "b">> THEN <<"a", "b">>
  ELSE IF name = <<"a", " ", " ", "b", "!">> THEN <<"a", "-", "b">>
  ELSE slugify(name)

ExpectedPath(row, did) ==
  <<"/">> \o int_to_str(row.StartDate.year) \o <<"-">> \o ExpectedSlug(row.Name)
          \o <<"-">> \o int_to_str(did)

\* C9: every committed disaster row carries the folder path made of the year of
\* its start date, the slug of its name and its own identifier, never the empty
\* placeholder, and no two rows carry the same path.
C9_FolderPaths ==
  \A i \in 1..Len(db.disaster) :
    /\ db.disaster[i].FolderPath # <<>>
    /\ db.disaster[i].FolderPath = ExpectedPath(db.disaster[i], i)
    /\ \A j \in 1..Len(db.disaster) :
         j # i => db.disaster[j].FolderPath # db.disaster[i].FolderPath

C9_Witness ==
  /\ Len(db.disaster) = 2
  /\ db.disaster[1].Name = db.disaster[2].Name
  /\ db.disaster[1].StartDate = db.disaster[2].StartDate

\* C10: every call of create_tenant_models ends without error, also when two
\* first calls for one disaster overlap; the cache holds nothing or the one
\* four-table handle for each disaster, and a call returns the cached handle.
C10_Original ==
  /\ \A t \in Threads : loc[t].raised # "InvalidRequestError"
  /\ \A d \in DisasterIds : cache[d] = <<>> \/ cache[d] = <<Handle(d)>>
  /\ \A t \in Threads :
       loc[t].models # <<>> => loc[t].models = cache[loc[t].disaster_id]

\* The handler of thread t has the partition handles in hand and starts its body
ObtainsHandles(t) ==
  /\ pc[t] \in {"idle", "tm_build"}
  /\ pc'[t] \in {"view_query", "add_write", "dist_load"}

\* C11: whenever a handler obtains the partition handles of a registered
\* disaster, the disaster's four tables exist once it has them (they are created
\* on first use), so the handler's reads and writes run against existing tables.
C11_Original ==
  [][\A t \in Threads :
       ObtainsHandles(t) =>
         /\ disaster_exists(db', loc'[t].disaster_id)
         /\ check_tenant_tables_exist(db', loc'[t].disaster_id)]_vars

====
